---- MODULE Spec2Model ----
(***************************************************************************)
(* video2doc (src/main.py): a video file is probed for its duration, its   *)
(* audio is extracted to a temporary WAV file, Whisper transcribes it and  *)
(* the transcription is rendered as a Markdown document.                   *)
(*                                                                         *)
(* Strings are sequences of characters, so that strip, replace, slicing,  *)
(* len and join are computed as Python computes them.  An ASCII character  *)
(* is itself; any other character is written as its code point, "U+5206".  *)
(* Seconds are whole numbers (the fraction of a float is dropped by every  *)
(* formatter before it is used).                                           *)
(***************************************************************************)
EXTENDS Integers, Sequences, FiniteSets, TLC

VARIABLES
    pc,           \* position of main(): start, probe, acquire, extract,
                  \* transcribe, generate, write, cleanup, ended
    videoExists,  \* video_path.exists()
    outputBefore, \* the file at output_path when the run starts
    outputFile,   \* the file at output_path now
    outputWrites, \* number of times output_path was opened for writing
    audioExists,  \* audio_path.exists()
    acquired,     \* the NamedTemporaryFile has been created
    unlinks,      \* sequence of the positions that deleted audio_path
    trace,        \* stages entered so far, in order
    probeOutcome, \* what the ffprobe call did
    ffmpegOutcome, \* what the ffmpeg call did, "none" before it
    video_duration,
    warnings,     \* warnings printed by get_video_duration
    result,       \* value returned by transcribe_audio
    markdown,     \* value returned by generate_markdown
    pending,      \* what is propagating through the finally block
    failedAt,     \* stage whose failure ended the pipeline, or "none"
    exitStatus,   \* process exit status, -1 while running
    genIn,        \* input of generate_markdown (document generator alone)
    genOut,       \* its lines and its document
    fmtIn,        \* input of format_timestamp (formatter alone)
    fmtOut        \* its output

pvars == <<pc, videoExists, outputBefore, outputFile, outputWrites, audioExists,
           acquired, unlinks, trace, probeOutcome, ffmpegOutcome, video_duration,
           warnings, result, markdown, pending, failedAt, exitStatus>>
gvars == <<genIn, genOut>>
fvars == <<fmtIn, fmtOut>>
vars == <<pvars, gvars, fvars>>

----------------------------------------------------------------------------
(* Python string operations on sequences of characters *)

Whitespace == {" ", "\n", "\t"}

Min(a, b) == IF a < b THEN a ELSE b

RECURSIVE LStrip(_)
LStrip(s) ==
    IF s # <<>> /\ s[1] \in Whitespace THEN LStrip(Tail(s)) ELSE s

RECURSIVE RStrip(_)
RStrip(s) ==
    IF s # <<>> /\ s[Len(s)] \in Whitespace
    THEN RStrip(SubSeq(s, 1, Len(s) - 1))
    ELSE s

\* str.strip()
Strip(s) == RStrip(LStrip(s))

\* str.replace(old, new) for a one-character old
RECURSIVE Replace(_, _, _)
Replace(s, old, new) ==
    IF s = <<>> THEN <<>>
    ELSE (IF s[1] = old THEN new ELSE <<s[1]>>) \o Replace(Tail(s), old, new)

\* s[:n]
Slice(s, n) == SubSeq(s, 1, Min(n, Len(s)))

\* sep.join(lines)
RECURSIVE Join(_, _)
Join(lines, sep) ==
    IF lines = <<>> THEN <<>>
    ELSE IF Len(lines) = 1 THEN lines[1]
    ELSE lines[1] \o sep \o Join(Tail(lines), sep)

DigitChar == <<"0", "1", "2", "3", "4", "5", "6", "7", "8", "9">>

\* str(n) for n >= 0
RECURSIVE Digits(_)
Digits(n) ==
    IF n < 10 THEN <<DigitChar[n + 1]>>
    ELSE Digits(n \div 10) \o <<DigitChar[(n % 10) + 1]>>

\* f"{n:02d}" for n >= 0
Pad2(n) == IF n < 10 THEN <<"0">> \o Digits(n) ELSE Digits(n)

----------------------------------------------------------------------------
(* Timestamp formatter *)

SecondsPerHour == 3600
SecondsPerMinute == 60

format_timestamp_wraps(seconds) ==
    LET h == (seconds \div SecondsPerHour) % 24
        m == (seconds % SecondsPerHour) \div SecondsPerMinute
        s == seconds % SecondsPerMinute
    IN  Pad2(h) \o <<":">> \o Pad2(m) \o <<":">> \o Pad2(s)

\* lines 41-46
format_timestamp(seconds) ==
    LET h == seconds \div SecondsPerHour
        m == (seconds % SecondsPerHour) \div SecondsPerMinute
        s == seconds % SecondsPerMinute
    IN  Pad2(h) \o <<":">> \o Pad2(m) \o <<":">> \o Pad2(s)

\* lines 49-55
format_duration(seconds) ==
    LET m == seconds \div SecondsPerMinute
        s == seconds % SecondsPerMinute
    IN  IF m > 0 THEN Digits(m) \o <<"U+5206">> \o Digits(s) \o <<"U+79D2">>
        ELSE Digits(s) \o <<"U+79D2">>

----------------------------------------------------------------------------
(* Document generator *)

TruncateLimit == 80
TruncateKeep == 77

\* dict.get(key, default)
Get(d, key, default) == IF key \in DOMAIN d THEN d[key] ELSE default

Newline == <<"\n">>
Rule == <<"-", "-", "-">>
Ellipsis == <<".", ".", ".">>
Unknown == <<"u", "n", "k", "n", "o", "w", "n">>

\* lines 87-99
HeaderLines(title, video_duration_, detected_language, now) ==
    << <<"#", " ">> \o title,
       <<>>,
       <<">", " ", "U+1F4C5", " ", "U+751F", "U+6210", "U+65F6", "U+95F4",
         ":", " ">> \o now,
       <<">", " ", "U+1F3AC", " ", "U+89C6", "U+9891", "U+65F6", "U+957F",
         ":", " ">> \o format_duration(video_duration_),
       <<">", " ", "U+1F310", " ", "U+68C0", "U+6D4B", "U+8BED", "U+8A00",
         ":", " ">> \o detected_language,
       <<">", " ", "U+1F916", " ", "U+8F6C", "U+5F55", "U+6A21", "U+578B",
         ":", " ", "W", "h", "i", "s", "p", "e", "r">>,
       <<>>,
       Rule,
       <<>>,
       <<"#", "#", " ", "U+8F6C", "U+5F55", "U+5185", "U+5BB9">>,
       <<>> >>

\* lines 103-108: the three lines one segment adds to the body
BodyBlock(seg) ==
    LET start == format_timestamp(seg["start"])
        end == format_timestamp(seg["end"])
        text == Strip(seg["text"])
    IN  << <<"*", "*", "[">> \o start \o <<" ", "U+2192", " ">> \o end
              \o <<"]", "*", "*">>,
           text,
           <<>> >>

\* lines 111-118
AppendixHead ==
    << Rule,
       <<>>,
       <<"#", "#", " ", "U+9644", "U+5F55", "U+FF1A", "U+5B8C", "U+6574",
         "U+65F6", "U+95F4", "U+8F74">>,
       <<>>,
       <<"|", " ", "U+65F6", "U+95F4", " ", "|", " ", "U+5185", "U+5BB9",
         " ", "|">>,
       <<"|", "-", "-", "-", "-", "-", "-", "|", "-", "-", "-", "-", "-",
         "-", "|">> >>

AppendixTextKeepsLimit(seg) ==
    LET text == Replace(Strip(seg["text"]), "|", <<"\\", "|">>)
    IN  IF Len(text) > TruncateLimit
        THEN Slice(text, TruncateLimit) \o Ellipsis
        ELSE text

\* lines 122-125: the text of one appendix row
AppendixText(seg) ==
    LET text == Replace(Strip(seg["text"]), "|", <<"\\", "|">>)
    IN  IF Len(text) > TruncateLimit
        THEN Slice(text, TruncateKeep) \o Ellipsis
        ELSE text

\* lines 121-126: the line one segment adds to the appendix
AppendixRow(seg) ==
    <<"|", " ">> \o format_timestamp(seg["start"]) \o <<" ", "|", " ">>
        \o AppendixText(seg) \o <<" ", "|">>

RECURSIVE BodyLines(_)
BodyLines(segments) ==
    IF segments = <<>> THEN <<>>
    ELSE BodyBlock(Head(segments)) \o BodyLines(Tail(segments))

RECURSIVE AppendixLines(_)
AppendixLines(segments) ==
    IF segments = <<>> THEN <<>>
    ELSE <<AppendixRow(Head(segments))>> \o AppendixLines(Tail(segments))

\* the list `lines` when generate_markdown reaches its return
MarkdownLines(result_, title, video_duration_, now) ==
    LET detected_language == Get(result_, "language", Unknown)
        segments == Get(result_, "segments", <<>>)
    IN  HeaderLines(title, video_duration_, detected_language, now)
            \o BodyLines(segments)
            \o AppendixHead
            \o AppendixLines(segments)
            \o << <<>> >>

generate_markdown(result_, title, video_duration_, now) ==
    Join(MarkdownLines(result_, title, video_duration_, now), Newline)

\* seg["start"], seg["end"], seg["text"] raise KeyError on a segment
\* without that key
GenerateRaises(result_) ==
    \E i \in DOMAIN Get(result_, "segments", <<>>) :
        ~({"start", "end", "text"} \subseteq DOMAIN Get(result_, "segments", <<>>)[i])

----------------------------------------------------------------------------
(* Duration probe *)

IsDigits(s) == \A i \in DOMAIN s : \E d \in DOMAIN DigitChar : s[i] = DigitChar[d]

DigitValue(c) == (CHOOSE d \in DOMAIN DigitChar : DigitChar[d] = c) - 1

RECURSIVE ToNat(_)
ToNat(s) ==
    IF s = <<>> THEN 0
    ELSE 10 * ToNat(SubSeq(s, 1, Len(s) - 1)) + DigitValue(s[Len(s)])

NonFinite == { <<"n", "a", "n">>, <<"i", "n", "f">> }

\* float(s) on the texts the probe can print: an unsigned decimal with an
\* optional fraction, "nan", "inf", anything else.  ok = FALSE is ValueError.
\* The value is kept in whole seconds.
ParseFloat(s) ==
    LET t == Strip(s)
        dots == {i \in DOMAIN t : t[i] = "."}
        dot == CHOOSE i \in dots : TRUE
        whole == IF dots = {} THEN t ELSE SubSeq(t, 1, dot - 1)
        frac == IF dots = {} THEN <<>> ELSE SubSeq(t, dot + 1, Len(t))
    IN  IF t \in NonFinite
        THEN [ok |-> TRUE, finite |-> FALSE, secs |-> 0]
        ELSE IF /\ Cardinality(dots) <= 1
                /\ IsDigits(whole) /\ IsDigits(frac)
                /\ Len(whole) + Len(frac) > 0
        THEN [ok |-> TRUE, finite |-> TRUE, secs |-> ToNat(whole)]
        ELSE [ok |-> FALSE, finite |-> TRUE, secs |-> 0]

\* lines 141-159: the value get_video_duration returns and the warnings it
\* prints, for a probe that ran
get_video_duration(out) ==
    LET f == ParseFloat(out.stdout)
    IN  IF f.ok
        THEN [value |-> [finite |-> f.finite, secs |-> f.secs],
              warnings |-> <<>>]
        ELSE [value |-> [finite |-> TRUE, secs |-> 0],
              warnings |-> <<"unparsed">>
                  \o (IF Strip(out.stdout) # <<>> THEN <<"stdout">> ELSE <<>>)
                  \o (IF Strip(out.stderr) # <<>> THEN <<"stderr">> ELSE <<>>)]

----------------------------------------------------------------------------
(* What the environment can do *)

ProbeStdouts ==
    { <<"1", "2", "5", ".", "5", "\n">>,
      <<"4", "5", "\n">>,
      <<"3", "6", "6", "1", ".", "0", "\n">>,
      <<>>,
      <<"\n">>,
      <<"N", "/", "A", "\n">>,
      <<"n", "a", "n", "\n">>,
      <<"i", "n", "f", "\n">> }

ProbeStderrs == { <<>>, <<"e", "r", "r", "\n">> }

\* subprocess.run either raises OSError (the tool cannot be started) or
\* returns what the tool printed
ProbeOutcomes ==
    [launched : {TRUE}, stdout : ProbeStdouts, stderr : ProbeStderrs]
        \cup {[launched |-> FALSE, stdout |-> <<>>, stderr |-> <<>>]}

FfmpegOutcomes == {"ok", "nonzero", "oserror"}

Seg(start, end, text) == [start |-> start, end |-> end, text |-> text]

\* what model.transcribe can return
PipelineResults ==
    { [language |-> <<"e", "n">>, segments |-> <<>>],
      [language |-> <<"e", "n">>,
       segments |-> <<Seg(0, 2, <<" ", "h", "i">>)>>],
      [language |-> <<"z", "h">>,
       segments |-> <<Seg(0, 2, <<"a", "|", "b">>), Seg(2, 3661, <<"c">>)>>],
      [segments |-> <<Seg(5, 7, <<"x">>)>>],
      [language |-> <<"e", "n">>],
      [language |-> <<"e", "n">>,
       segments |-> <<Seg(0, 2, <<"a">>), [start |-> 2, end |-> 4]>>] }

WriteOutcomes == {"ok", "openfails", "writefails"}

Absent == [exists |-> FALSE, content |-> <<>>]
File(content) == [exists |-> TRUE, content |-> content]

Title == <<"v", "i", "d", "e", "o">>
GenTime == <<"2", "0", "2", "5", "-", "0", "1", "-", "0", "1", " ",
             "0", "0", ":", "0", "0", ":", "0", "0">>

----------------------------------------------------------------------------
(* main() *)

\* the state of one run of main() before its first statement
MainInit(videos, outputs) ==
    /\ pc = "start"
    /\ videoExists \in videos
    /\ outputBefore \in outputs
    /\ outputFile = outputBefore
    /\ outputWrites = 0
    /\ audioExists = FALSE
    /\ acquired = FALSE
    /\ unlinks = <<>>
    /\ trace = <<>>
    /\ probeOutcome = [launched |-> FALSE, stdout |-> <<>>, stderr |-> <<>>]
    /\ ffmpegOutcome = "none"
    /\ video_duration = [finite |-> TRUE, secs |-> 0]
    /\ warnings = <<>>
    /\ result = [segments |-> <<>>]
    /\ markdown = <<>>
    /\ pending = "none"
    /\ failedAt = "none"
    /\ exitStatus = -1

GenIdle ==
    /\ genIn = [segments |-> <<>>]
    /\ genOut = [done |-> FALSE, lines |-> <<>>, doc |-> <<>>]

FmtIdle ==
    /\ fmtIn = 0
    /\ fmtOut = <<>>

Init ==
    /\ MainInit(BOOLEAN, {Absent, File(<<"o", "l", "d">>)})
    /\ GenIdle
    /\ FmtIdle

\* the interpreter ends: an uncaught exception and sys.exit(1) both give
\* status 1
Exit(status) ==
    /\ pc' = "ended"
    /\ exitStatus' = status

\* sys.exit(1) or an exception raised inside the try block: control goes to
\* the finally block with it pending
Raise(what, stage) ==
    /\ pc' = "cleanup"
    /\ pending' = what
    /\ failedAt' = stage
    /\ UNCHANGED exitStatus

\* sys.exit(1) or an exception raised outside the try block
Die(what, stage) ==
    /\ Exit(1)
    /\ pending' = what
    /\ failedAt' = stage

Goto(next) ==
    /\ pc' = next
    /\ UNCHANGED <<pending, failedAt, exitStatus>>

InputMissingNever == FALSE

\* line 195
InputMissing == ~videoExists

\* lines 194-197
CheckInput ==
    /\ pc = "start"
    /\ IF InputMissing THEN Die("exit1", "start") ELSE Goto("probe")
    /\ UNCHANGED <<videoExists, outputBefore, outputFile, outputWrites,
                   audioExists, acquired, unlinks, trace, probeOutcome,
                   ffmpegOutcome, video_duration, warnings, result, markdown,
                   gvars, fvars>>

\* lines 209-210: get_video_duration, then format_duration of its value
\* (int() of a NaN raises ValueError; inf // 60 is NaN)
ProbeDuration ==
    /\ pc = "probe"
    /\ trace' = Append(trace, "probe")
    /\ \E out \in ProbeOutcomes :
          /\ probeOutcome' = out
          /\ IF ~out.launched
             THEN /\ Die("exception", "probe")
                  /\ UNCHANGED <<video_duration, warnings>>
             ELSE /\ video_duration' = get_video_duration(out).value
                  /\ warnings' = get_video_duration(out).warnings
                  /\ IF ~video_duration'.finite
                     THEN Die("exception", "probe")
                     ELSE Goto("acquire")
    /\ UNCHANGED <<videoExists, outputBefore, outputFile, outputWrites,
                   audioExists, acquired, unlinks, ffmpegOutcome, result,
                   markdown, gvars, fvars>>

\* lines 213-214
AcquireTemp ==
    /\ pc = "acquire"
    /\ trace' = Append(trace, "acquire")
    /\ audioExists' = TRUE
    /\ acquired' = TRUE
    /\ Goto("extract")
    /\ UNCHANGED <<videoExists, outputBefore, outputFile, outputWrites,
                   unlinks, probeOutcome, ffmpegOutcome, video_duration,
                   warnings, result, markdown, gvars, fvars>>

AfterExtractExitsAtOnce(rc) ==
    CASE rc = "ok" -> Goto("transcribe")
      [] rc = "nonzero" -> Die("exit1", "extract")
      [] rc = "oserror" -> Raise("exception", "extract")

AfterExtractIgnoresStatus(rc) ==
    CASE rc = "ok" -> Goto("transcribe")
      [] rc = "nonzero" -> Goto("transcribe")
      [] rc = "oserror" -> Raise("exception", "extract")

\* lines 218-220 with lines 34-38: what main does with extract_audio's outcome
AfterExtract(rc) ==
    CASE rc = "ok" -> Goto("transcribe")
      [] rc = "nonzero" -> Raise("exit1", "extract")
      [] rc = "oserror" -> Raise("exception", "extract")

\* lines 217-220 (extract_audio, lines 22-38); ffmpeg -y writes audio_path
ExtractAudio ==
    /\ pc = "extract"
    /\ trace' = Append(trace, "extract")
    /\ \E rc \in FfmpegOutcomes :
          /\ ffmpegOutcome' = rc
          /\ AfterExtract(rc)
    /\ UNCHANGED <<videoExists, outputBefore, outputFile, outputWrites,
                   audioExists, acquired, unlinks, probeOutcome,
                   video_duration, warnings, result, markdown, gvars, fvars>>

\* lines 222-227 (transcribe_audio, lines 58-74)
TranscribeAudio ==
    /\ pc = "transcribe"
    /\ trace' = Append(trace, "transcribe")
    /\ \/ /\ Raise("exception", "transcribe")
          /\ UNCHANGED result
       \/ /\ result' \in PipelineResults
          /\ Goto("generate")
    /\ UNCHANGED <<videoExists, outputBefore, outputFile, outputWrites,
                   audioExists, acquired, unlinks, probeOutcome,
                   ffmpegOutcome, video_duration, warnings, markdown,
                   gvars, fvars>>

GenerateFailedAfterOpen ==
    /\ Raise("exception", "generate")
    /\ outputFile' = File(<<>>)
    /\ outputWrites' = outputWrites + 1
    /\ UNCHANGED markdown

\* line 230, generate_markdown raising: output_path is not yet touched
GenerateFailed ==
    /\ Raise("exception", "generate")
    /\ UNCHANGED <<markdown, outputFile, outputWrites>>

\* lines 229-230
GenerateMarkdown ==
    /\ pc = "generate"
    /\ trace' = Append(trace, "generate")
    /\ IF GenerateRaises(result)
       THEN GenerateFailed
       ELSE /\ markdown' = generate_markdown(result, Title,
                                             video_duration.secs, GenTime)
            /\ Goto("write")
            /\ UNCHANGED <<outputFile, outputWrites>>
    /\ UNCHANGED <<videoExists, outputBefore, audioExists, acquired, unlinks,
                   probeOutcome, ffmpegOutcome, video_duration, warnings,
                   result, gvars, fvars>>

\* lines 232-233: write_text opens the file for writing, which truncates
\* it, and then writes the text
WriteOutput ==
    /\ pc = "write"
    /\ trace' = Append(trace, "write")
    /\ \E w \in WriteOutcomes :
          CASE w = "ok" ->
                 /\ outputFile' = File(markdown)
                 /\ outputWrites' = outputWrites + 1
                 /\ Goto("cleanup")
            [] w = "openfails" ->
                 /\ Raise("exception", "write")
                 /\ UNCHANGED <<outputFile, outputWrites>>
            [] w = "writefails" ->
                 /\ outputFile' = File(<<>>)
                 /\ outputWrites' = outputWrites + 1
                 /\ Raise("exception", "write")
    /\ UNCHANGED <<videoExists, outputBefore, audioExists, acquired, unlinks,
                   probeOutcome, ffmpegOutcome, video_duration, warnings,
                   result, markdown, gvars, fvars>>

ReleaseTempOnSuccess ==
    IF audioExists /\ pending = "none"
    THEN /\ audioExists' = FALSE
         /\ unlinks' = Append(unlinks, pc)
    ELSE UNCHANGED <<audioExists, unlinks>>

\* lines 237-238
ReleaseTemp ==
    IF audioExists
    THEN /\ audioExists' = FALSE
         /\ unlinks' = Append(unlinks, pc)
    ELSE UNCHANGED <<audioExists, unlinks>>

\* lines 235-238, then what was pending ends the process
Cleanup ==
    /\ pc = "cleanup"
    /\ trace' = Append(trace, "cleanup")
    /\ ReleaseTemp
    /\ Exit(IF pending = "none" THEN 0 ELSE 1)
    /\ UNCHANGED <<videoExists, outputBefore, outputFile, outputWrites,
                   acquired, probeOutcome, ffmpegOutcome, video_duration,
                   warnings, result, markdown, pending, failedAt, gvars,
                   fvars>>

Next ==
    \/ CheckInput
    \/ ProbeDuration
    \/ AcquireTemp
    \/ ExtractAudio
    \/ TranscribeAudio
    \/ GenerateMarkdown
    \/ WriteOutput
    \/ Cleanup

Spec == Init /\ [][Next]_vars

----------------------------------------------------------------------------
(* The document generator on its own: generate_markdown applied once to a  *)
(* transcription result drawn from GenInputs.                              *)

MaxLen == 3
MaxSegs == 2

Alphabet == {"a", "|", "\\", " ", "\n"}

RECURSIVE Strings(_, _)
Strings(chars, n) ==
    IF n = 0 THEN {<<>>}
    ELSE Strings(chars, n - 1)
            \cup {Append(t, c) : t \in {u \in Strings(chars, n - 1) : Len(u) = n - 1},
                                 c \in chars}

RECURSIVE Rep(_, _)
Rep(c, n) == IF n = 0 THEN <<>> ELSE <<c>> \o Rep(c, n - 1)

ShortTexts == Strings(Alphabet, MaxLen)

\* texts whose escaped length lies around the truncation limit
LongTexts ==
    LET tails == Strings({"a", "|", "\\"}, 2)
        pads == {Rep("a", n) : n \in (TruncateKeep - 3) .. (TruncateLimit + 5)}
    IN  {p \o t : p \in pads, t \in tails} \cup {t \o p : p \in pads, t \in tails}

TimePairs == {<<0, 0>>, <<59, 3661>>}

OrderSegs ==
    { Seg(0, 5, <<"a">>), Seg(5, 60, <<"b", "|">>),
      Seg(60, 3600, <<"c", "\\">>), Seg(3600, 90000, <<>>) }

RECURSIVE SeqsOf(_, _)
SeqsOf(S, n) ==
    IF n = 0 THEN {<<>>}
    ELSE SeqsOf(S, n - 1)
            \cup {Append(t, x) : t \in {u \in SeqsOf(S, n - 1) : Len(u) = n - 1},
                                 x \in S}

GenSegments ==
    {<<Seg(tp[1], tp[2], t)>> : tp \in TimePairs, t \in ShortTexts \cup LongTexts}
        \cup SeqsOf(OrderSegs, MaxSegs)

GenInputs == [language : {<<"e", "n">>}, segments : GenSegments]

\* video_duration handed to generate_markdown: 2 minutes 5 seconds
GenDuration == 2 * SecondsPerMinute + 5

\* lines 77-129
GenerateDocument ==
    /\ ~genOut.done
    /\ \E r \in GenInputs :
          /\ genIn' = r
          /\ genOut' = [done |-> TRUE,
                        lines |-> MarkdownLines(r, Title, GenDuration, GenTime),
                        doc |-> generate_markdown(r, Title, GenDuration, GenTime)]
    /\ UNCHANGED <<pvars, fvars>>

InitGen ==
    /\ MainInit({TRUE}, {Absent})
    /\ GenIdle
    /\ FmtIdle

NextGen == GenerateDocument

SpecGen == InitGen /\ [][NextGen]_vars

----------------------------------------------------------------------------
(* The timestamp formatter on its own *)

MaxSeconds == 90000

LargeHours == {99, 100, 999, 1000}

FmtInputs ==
    0 .. MaxSeconds
        \cup {h * SecondsPerHour + r : h \in LargeHours, r \in {0, 59, 3599}}

\* lines 41-46
FormatTimestamp ==
    /\ fmtOut = <<>>
    /\ \E s \in FmtInputs :
          /\ fmtIn' = s
          /\ fmtOut' = format_timestamp(s)
    /\ UNCHANGED <<pvars, gvars>>

InitFmt ==
    /\ MainInit({TRUE}, {Absent})
    /\ GenIdle
    /\ FmtIdle

NextFmt == FormatTimestamp

SpecFmt == InitFmt /\ [][NextFmt]_vars

----------------------------------------------------------------------------
(* Properties of main() *)

Range(f) == {f[i] : i \in DOMAIN f}

Ended == pc = "ended"

\* the run ended through sys.exit(1)
Aborted == Ended /\ pending = "exit1"

StageOrder == <<"probe", "acquire", "extract", "transcribe", "generate",
                "write", "cleanup">>

Rank(stage) == CHOOSE i \in DOMAIN StageOrder : StageOrder[i] = stage

\* C1: once the temporary audio file has been acquired, every way the run
\* can end leaves it absent from disk; it is deleted at most once, and only
\* by the cleanup step.
C1_TempFileReleased ==
    /\ (acquired /\ Ended) => ~audioExists
    /\ Len(unlinks) <= 1
    /\ \A i \in DOMAIN unlinks : unlinks[i] = "cleanup"

\* an exception in transcription, after which the file is gone
C1_Witness ==
    /\ acquired /\ Ended /\ failedAt = "transcribe"
    /\ ~audioExists /\ unlinks = <<"cleanup">>

\* C2: when the decoder returns a non-zero status the transcription engine
\* is never invoked, the process does not exit before cleanup has run and
\* removed the temporary audio file, and it exits with status 1.
C2_ExtractionFailureAborts ==
    ffmpegOutcome = "nonzero" =>
        /\ "transcribe" \notin Range(trace)
        /\ Ended => /\ exitStatus = 1
                    /\ "cleanup" \in Range(trace)
                    /\ ~audioExists

C2_Witness ==
    /\ ffmpegOutcome = "nonzero" /\ Ended /\ exitStatus = 1
    /\ trace = <<"probe", "acquire", "extract", "cleanup">>

\* C3: whatever the probe call does, get_video_duration returns a duration
\* (0.0 with a warning when no number can be parsed), the run goes on to
\* audio extraction, and it ends with status 0 if the later stages succeed.
C3_ProbeNeverFatal ==
    "probe" \in Range(trace) =>
        /\ failedAt # "probe"
        /\ (probeOutcome.launched /\ ~ParseFloat(probeOutcome.stdout).ok) =>
               (video_duration.secs = 0 /\ warnings # <<>>)
        /\ (Ended /\ failedAt = "none") => exitStatus = 0

\* C4: with no input video the run ends with status 1 at once: no stage is
\* entered, so no probe, decoder or engine call is made and no temporary
\* file is created.
C4_MissingInputAbortsFirst ==
    ~videoExists =>
        /\ pc \in {"start", "ended"}
        /\ trace = <<>>
        /\ ~acquired /\ ~audioExists
        /\ Ended => exitStatus = 1

C4_Witness == ~videoExists /\ Ended /\ exitStatus = 1 /\ failedAt = "start"

C10_OutputWrittenOnceAtEnd ==
    /\ outputWrites <= 1
    /\ (outputWrites > 0 \/ outputFile # outputBefore) =>
           /\ "write" \in Range(trace)
           /\ ffmpegOutcome = "ok"
           /\ ~GenerateRaises(result)
           /\ failedAt \in {"none", "write"}
    /\ (Ended /\ failedAt \in {"start", "extract", "transcribe", "generate"}) =>
           (outputWrites = 0 /\ outputFile = outputBefore)

\* generation raised and the file that was there is still there
C10_Witness ==
    /\ Ended /\ failedAt = "generate"
    /\ outputBefore.exists /\ outputFile = outputBefore

----------------------------------------------------------------------------
(* Reading a document back *)

\* s.split(c)
RECURSIVE Split(_, _)
Split(s, c) ==
    IF \A i \in DOMAIN s : s[i] # c THEN <<s>>
    ELSE LET k == CHOOSE i \in DOMAIN s :
                      s[i] = c /\ \A j \in 1 .. (i - 1) : s[j] # c
         IN  <<SubSeq(s, 1, k - 1)>> \o Split(SubSeq(s, k + 1, Len(s)), c)

StartsWith(s, p) == Len(s) >= Len(p) /\ SubSeq(s, 1, Len(p)) = p
EndsWith(s, p) ==
    Len(s) >= Len(p) /\ SubSeq(s, Len(s) - Len(p) + 1, Len(s)) = p

\* the lines of a document that open a body block
IsBlockHeader(l) ==
    StartsWith(l, <<"*", "*", "[">>) /\ EndsWith(l, <<"]", "*", "*">>)

BlockHeaders(doclines) == SelectSeq(doclines, IsBlockHeader)

TableDivider == AppendixHead[Len(AppendixHead)]

\* the rows of the document's table: the lines that follow the divider
\* line, up to the first blank line
TableRows(doclines) ==
    LET divs == {i \in DOMAIN doclines : doclines[i] = TableDivider}
        d == CHOOSE i \in divs : \A j \in divs : i <= j
        blanks == {i \in DOMAIN doclines : i > d /\ doclines[i] = <<>>}
        e == IF blanks = {} THEN Len(doclines) + 1
             ELSE CHOOSE i \in blanks : \A j \in blanks : i <= j
    IN  IF divs = {} THEN <<>> ELSE SubSeq(doclines, d + 1, e - 1)

HeaderLen == Len(HeaderLines(<<>>, 0, <<>>, <<>>))

GenSegs == genIn.segments

\* the line the i-th segment added to the appendix, and its text cell
RowLine(i) ==
    genOut.lines[HeaderLen + 3 * Len(GenSegs) + Len(AppendixHead) + i]

RowCell(i) ==
    SubSeq(RowLine(i), 6 + Len(format_timestamp(GenSegs[i].start)),
           Len(RowLine(i)) - 2)

\* the text line the i-th segment added to the body
BodyText(i) == genOut.lines[HeaderLen + 3 * (i - 1) + 2]

\* the character at k is a pipe made literal by a backslash: an odd number
\* of backslashes stands directly before it
EscapedAt(s, k) ==
    LET run == CHOOSE n \in 0 .. (k - 1) :
                   /\ \A j \in (k - n) .. (k - 1) : s[j] = "\\"
                   /\ (k - n - 1 >= 1 => s[k - n - 1] # "\\")
    IN  run % 2 = 1

----------------------------------------------------------------------------
(* Properties of generate_markdown *)

\* C5: a result with N segments gives a document with exactly N body
\* blocks and exactly N table rows, the i-th of each belonging to the i-th
\* segment, whatever characters the texts hold.
C5_OneBlockAndRowPerSegment ==
    genOut.done =>
        LET doclines == Split(genOut.doc, "\n")
            heads == BlockHeaders(doclines)
            rows == TableRows(doclines)
        IN  /\ Len(heads) = Len(GenSegs)
            /\ Len(rows) = Len(GenSegs)
            /\ \A i \in DOMAIN GenSegs :
                  /\ heads[i] = <<"*", "*", "[">>
                         \o format_timestamp(GenSegs[i].start)
                         \o <<" ", "U+2192", " ">>
                         \o format_timestamp(GenSegs[i].end)
                         \o <<"]", "*", "*">>
                  /\ StartsWith(rows[i],
                         <<"|", " ">> \o format_timestamp(GenSegs[i].start)
                             \o <<" ", "|", " ">>)
                  /\ EndsWith(rows[i], <<" ", "|">>)

\* C6: every pipe in the text cell of an appendix row is escaped, whatever
\* surrounds it in the segment text, and the body shows the trimmed text
\* with its pipes as they are.
C6_PipesEscapedInAppendix ==
    genOut.done =>
        \A i \in DOMAIN GenSegs :
            /\ \A k \in DOMAIN RowCell(i) :
                   RowCell(i)[k] = "|" => EscapedAt(RowCell(i), k)
            /\ BodyText(i) = Strip(GenSegs[i].text)

\* C7: an appendix row shows the trimmed, pipe-escaped text cut to its
\* first 77 characters plus "..." when that text is longer than 80
\* characters and unchanged otherwise, so never more than 80 characters;
\* the body block shows the whole trimmed text.
C7_AppendixTruncatedBodyWhole ==
    genOut.done =>
        \A i \in DOMAIN GenSegs :
            LET trimmed == Strip(GenSegs[i].text)
                escaped == Replace(trimmed, "|", <<"\\", "|">>)
            IN  /\ Len(escaped) > 80 =>
                       RowCell(i) = SubSeq(escaped, 1, 77) \o <<".", ".", ".">>
                /\ Len(escaped) <= 80 => RowCell(i) = escaped
                /\ Len(RowCell(i)) <= 80
                /\ BodyText(i) = trimmed

\* a text of 85 characters: 80 in the appendix row, 85 in the body
C7_Witness ==
    /\ genOut.done
    /\ \E i \in DOMAIN GenSegs :
          /\ Len(GenSegs[i].text) = 85
          /\ Len(RowCell(i)) = 80
          /\ EndsWith(RowCell(i), <<".", ".", ".">>)
          /\ Len(BodyText(i)) = 85

----------------------------------------------------------------------------
(* Properties of format_timestamp *)

\* C8: format_timestamp(s) is HH:MM:SS with h = s div 3600,
\* m = (s mod 3600) div 60 and sec = s mod 60, so h*3600 + m*60 + sec = s
\* with m and sec at most 59; each field has at least two digits, padded
\* with a zero, and hours do not wrap at 24.
C8_ClockFormat ==
    fmtOut # <<>> =>
        LET f == Split(fmtOut, ":")
        IN  /\ Len(f) = 3
            /\ \A k \in 1 .. 3 : f[k] # <<>> /\ IsDigits(f[k])
            /\ Len(f[1]) = (IF fmtIn \div 3600 < 100 THEN 2
                            ELSE Len(Digits(fmtIn \div 3600)))
            /\ Len(f[2]) = 2 /\ Len(f[3]) = 2
            /\ ToNat(f[1]) = fmtIn \div 3600
            /\ ToNat(f[2]) = (fmtIn % 3600) \div 60
            /\ ToNat(f[3]) = fmtIn % 60
            /\ ToNat(f[2]) <= 59 /\ ToNat(f[3]) <= 59
            /\ ToNat(f[1]) * 3600 + ToNat(f[2]) * 60 + ToNat(f[3]) = fmtIn
            /\ fmtIn = 0 => fmtOut = <<"0", "0", ":", "0", "0", ":", "0", "0">>
            /\ fmtIn = 3661 => fmtOut = <<"0", "1", ":", "0", "1", ":", "0", "1">>
            /\ fmtIn = 90000 => fmtOut = <<"2", "5", ":", "0", "0", ":", "0", "0">>

\* 25 hours
C8_Witness ==
    /\ fmtIn = 90000
    /\ fmtOut = <<"2", "5", ":", "0", "0", ":", "0", "0">>

====
